---- MODULE Spec2Model ----
(***************************************************************************)
(* py_to_asm: Lexer -> Parser -> X86CodeGenerator, and the 32-bit stack    *)
(* machine the generated assembly runs on.                                 *)
(*                                                                         *)
(* A Python string is a sequence of one-character strings; positions are   *)
(* 0-based as in the source, so source[pos] is written At(source, pos).    *)
(***************************************************************************)
EXTENDS Integers, Sequences, FiniteSets, TLC

VARIABLES source_code, lexer, parser, nodes, code_generator, gi, assembly,
          raised, pc, cpu

vars == <<source_code, lexer, parser, nodes, code_generator, gi, assembly,
          raised, pc, cpu>>

(***************************************************************************)
(* Characters                                                              *)
(***************************************************************************)
\* The one element of a singleton: Once({e(v) : v \in {a}}) evaluates a once
\* and e on its value, however often e uses v.
Once(S) == CHOOSE r \in S : TRUE

At(s, i) == s[i + 1]

Slice(s, from, to) == SubSeq(s, from + 1, to)

Digits == {"0", "1", "2", "3", "4", "5", "6", "7", "8", "9"}

Letters == {"a", "b", "c", "d", "e", "f", "g", "h", "i", "j", "k", "l", "m",
            "n", "o", "p", "q", "r", "s", "t", "u", "v", "w", "x", "y", "z"}

IsSpace(c) == c \in {" ", "\t", "\n", "\r"}

IsDigit(c) == c \in Digits

IsAlpha(c) == c \in Letters

IsAlnum(c) == IsAlpha(c) \/ IsDigit(c)

OperatorChars == {"+", "-", "*", "/", "<", ">", "="}

Keywords == {<<"i", "f">>, <<"w", "h", "i", "l", "e">>, <<"f", "o", "r">>,
             <<"d", "e", "f">>, <<"r", "e", "t", "u", "r", "n">>}

RECURSIVE Spaces(_)
Spaces(n) == IF n = 0 THEN <<>> ELSE <<" ">> \o Spaces(n - 1)

(***************************************************************************)
(* Token and Lexer                                                         *)
(***************************************************************************)
Token(type, value, line, column) ==
    [type |-> type, value |-> value, line |-> line, column |-> column]

NewLexer(source) ==
    [source |-> source, pos |-> 0, line |-> 1, column |-> 1,
     indent_stack |-> <<0>>, tokens |-> <<>>]

Top(stack) == stack[Len(stack)]

Pop(stack) == SubSeq(stack, 1, Len(stack) - 1)

Emit(lx, tok) == [lx EXCEPT !.tokens = Append(@, tok)]

Advance(lx) == [lx EXCEPT !.pos = @ + 1, !.column = @ + 1]

\* The comment loop: consume up to, not including, the next newline.
RECURSIVE SkipComment(_)
SkipComment(lx0) ==
    Once({IF lx.pos < Len(lx.source) /\ At(lx.source, lx.pos) # "\n"
          THEN SkipComment(Advance(lx))
          ELSE lx : lx \in {lx0}})

RECURSIVE ScanDigits(_)
ScanDigits(lx) ==
    IF lx.pos < Len(lx.source) /\ IsDigit(At(lx.source, lx.pos))
    THEN ScanDigits(Advance(lx))
    ELSE lx

tokenize_number(lx) ==
    LET start_pos == lx.pos
        after == ScanDigits(lx)
        value == Slice(lx.source, start_pos, after.pos)
    IN  Emit(after, Token("NUMBER", value, after.line, after.column - Len(value)))

RECURSIVE ScanIdentifier(_)
ScanIdentifier(lx) ==
    IF lx.pos < Len(lx.source)
       /\ (IsAlnum(At(lx.source, lx.pos)) \/ At(lx.source, lx.pos) = "_")
    THEN ScanIdentifier(Advance(lx))
    ELSE lx

tokenize_identifier(lx) ==
    LET start_pos == lx.pos
        after == ScanIdentifier(lx)
        value == Slice(lx.source, start_pos, after.pos)
        token_type == IF value \in Keywords THEN "KEYWORD" ELSE "IDENTIFIER"
    IN  Emit(after, Token(token_type, value, after.line, after.column - Len(value)))

\* tokenize_operator taking <=, >=, == as one token.
tokenize_operator_munch(lx) ==
    LET start_pos == lx.pos
        two == /\ lx.pos + 1 < Len(lx.source)
               /\ At(lx.source, lx.pos) \in {"<", ">", "="}
               /\ At(lx.source, lx.pos + 1) = "="
        after == IF two THEN Advance(Advance(lx)) ELSE Advance(lx)
        value == Slice(lx.source, start_pos, after.pos)
    IN  Emit(after, Token("OPERATOR", value, after.line, after.column - Len(value)))

tokenize_operator(lx) ==
    LET start_pos == lx.pos
        after == Advance(lx)
        value == Slice(lx.source, start_pos, after.pos)
    IN  Emit(after, Token("OPERATOR", value, after.line, after.column - Len(value)))

TabWidth == 4

\* MeasureIndent with a tab counted as one column.
RECURSIVE MeasureIndentTabAsOne(_, _)
MeasureIndentTabAsOne(lx, indent_level) ==
    IF lx.pos < Len(lx.source) /\ At(lx.source, lx.pos) \in {" ", "\t"}
    THEN MeasureIndentTabAsOne(Advance(lx), indent_level + 1)
    ELSE [lx |-> lx, indent_level |-> indent_level]

\* The scan of handle_indentation: the width of the run of spaces and tabs.
RECURSIVE MeasureIndent(_, _)
MeasureIndent(lx, indent_level) ==
    IF lx.pos < Len(lx.source) /\ At(lx.source, lx.pos) \in {" ", "\t"}
    THEN MeasureIndent(Advance(lx),
                       IF At(lx.source, lx.pos) = " "
                       THEN indent_level + 1
                       ELSE indent_level + TabWidth)
    ELSE [lx |-> lx, indent_level |-> indent_level]

RECURSIVE Dedent(_, _)
Dedent(lx, indent_level) ==
    IF indent_level < Top(lx.indent_stack)
    THEN Dedent(Emit([lx EXCEPT !.indent_stack = Pop(@)],
                     Token("DEDENT", <<>>, lx.line, 1)),
                indent_level)
    ELSE lx

handle_indentation(lx0) ==
    LET m == MeasureIndent(lx0, 0)
        lx == m.lx
        indent_level == m.indent_level
        pushed == IF indent_level > Top(lx.indent_stack)
                  THEN Emit([lx EXCEPT !.indent_stack = Append(@, indent_level)],
                            Token("INDENT", Spaces(indent_level), lx.line, 1))
                  ELSE lx
    IN  Dedent(pushed, indent_level)

\* LexIter without the advance past an unrecognized character.
LexIterNoSkip(lx) ==
    LET char == At(lx.source, lx.pos) IN
    IF IsSpace(char)
    THEN IF char = "\n"
         THEN handle_indentation(
                  [Emit(lx, Token("NEWLINE", <<"\n">>, lx.line, lx.column))
                      EXCEPT !.line = @ + 1, !.column = 1, !.pos = @ + 1])
         ELSE Advance(lx)
    ELSE IF char = "#" THEN SkipComment(lx)
    ELSE IF IsDigit(char) THEN tokenize_number(lx)
    ELSE IF IsAlpha(char) \/ char = "_" THEN tokenize_identifier(lx)
    ELSE IF char \in OperatorChars THEN tokenize_operator(lx)
    ELSE lx

\* One iteration of the while loop of Lexer.tokenize.
LexIter(lx) ==
    LET char == At(lx.source, lx.pos) IN
    IF IsSpace(char)
    THEN IF char = "\n"
         THEN handle_indentation(
                  [Emit(lx, Token("NEWLINE", <<"\n">>, lx.line, lx.column))
                      EXCEPT !.line = @ + 1, !.column = 1, !.pos = @ + 1])
         ELSE Advance(lx)
    ELSE IF char = "#" THEN SkipComment(lx)
    ELSE IF IsDigit(char) THEN tokenize_number(lx)
    ELSE IF IsAlpha(char) \/ char = "_" THEN tokenize_identifier(lx)
    ELSE IF char \in OperatorChars THEN tokenize_operator(lx)
    ELSE Advance(lx)

\* LexEof with the indentation stack unwound first.
LexEofFlush(lx) == Emit(Dedent(lx, 0), Token("EOF", <<>>, lx.line, lx.column))

\* What follows the loop: the EOF token.
LexEof(lx) == Emit(lx, Token("EOF", <<>>, lx.line, lx.column))

\* Lexer(source).tokenize() run to completion.
RECURSIVE TokenizeFrom(_)
TokenizeFrom(lx0) ==
    Once({IF lx.pos < Len(lx.source) THEN TokenizeFrom(LexIter(lx)) ELSE LexEof(lx) :
             lx \in {lx0}})

tokenize(source) == TokenizeFrom(NewLexer(source)).tokens

(***************************************************************************)
(* AST nodes                                                               *)
(***************************************************************************)
NumberNode(value) == [node |-> "NumberNode", value |-> value]

BinaryOpNode(left, operator, right) ==
    [node |-> "BinaryOpNode", left |-> left, operator |-> operator, right |-> right]

VariableNode(name) == [node |-> "VariableNode", name |-> name]

AssignmentNode(name, value) == [node |-> "AssignmentNode", name |-> name, value |-> value]

IfNode(condition, body) == [node |-> "IfNode", condition |-> condition, body |-> body]

(***************************************************************************)
(* Parser.  A method's outcome is Ok(node, pos), with pos the parser's     *)
(* position afterwards, or Raise(error, pos) for a raised exception.       *)
(***************************************************************************)
NewParser(tokens) == [tokens |-> tokens, pos |-> 0]

Ok(node, pos) == [ok |-> TRUE, node |-> node, pos |-> pos]

Raise(error, pos) == [ok |-> FALSE, error |-> error, pos |-> pos]

\* tokens[pos]; Python raises IndexError past the end of the list.
current_token(ts, pos) ==
    IF pos < Len(ts) THEN At(ts, pos) ELSE Token("IndexError", <<>>, -1, -1)

peek_next(ts, pos) ==
    IF pos + 1 >= Len(ts) THEN Token("EOF", <<>>, -1, -1) ELSE At(ts, pos + 1)

is_at_end(ts, pos) == current_token(ts, pos).type = "EOF"

check(ts, pos, type) ==
    IF is_at_end(ts, pos) THEN FALSE ELSE current_token(ts, pos).type = type

\* match() given token types: TRUE when one is consumed.
MatchType(ts, pos, types) == \E t \in types : check(ts, pos, t)

\* match() given strings: compared with the current token's value.
MatchValue(ts, pos, values) ==
    ~is_at_end(ts, pos) /\ current_token(ts, pos).value \in values

previous(ts, pos) == At(ts, pos - 1)

DigitValue(c) ==
    CASE c = "0" -> 0 [] c = "1" -> 1 [] c = "2" -> 2 [] c = "3" -> 3
      [] c = "4" -> 4 [] c = "5" -> 5 [] c = "6" -> 6 [] c = "7" -> 7
      [] c = "8" -> 8 [] c = "9" -> 9

\* int(value) of a run of decimal digits.
RECURSIVE IntOf(_)
IntOf(value) ==
    IF value = <<>> THEN 0
    ELSE 10 * IntOf(SubSeq(value, 1, Len(value) - 1)) + DigitValue(value[Len(value)])

parse_primary(ts, pos) ==
    IF MatchType(ts, pos, {"NUMBER"})
    THEN Ok(NumberNode(IntOf(previous(ts, pos + 1).value)), pos + 1)
    ELSE IF MatchType(ts, pos, {"IDENTIFIER"})
    THEN Ok(VariableNode(previous(ts, pos + 1).value), pos + 1)
    ELSE Raise([kind |-> "Unexpected token", token |-> current_token(ts, pos)], pos)

\* Swapped operands of a folded operation.
FoldSwapped(expr, operator, right) ==
    IF right.ok
    THEN Ok(BinaryOpNode(right.node, operator, expr.node), right.pos)
    ELSE right

\* expr folded with the right operand of `operator`, or right's exception.
Fold(expr, operator, right0) ==
    Once({IF right.ok
          THEN Ok(BinaryOpNode(expr.node, operator, right.node), right.pos)
          ELSE right : right \in {right0}})

FactorOps == {<<"*">>, <<"/">>}

\* The while loop of parse_factor, entered with the first operand's outcome.
RECURSIVE FactorLoop(_, _)
FactorLoop(ts, expr0) ==
    Once({IF expr.ok /\ MatchValue(ts, expr.pos, FactorOps)
          THEN FactorLoop(ts, Fold(expr, previous(ts, expr.pos + 1).value,
                               parse_primary(ts, expr.pos + 1)))
          ELSE expr : expr \in {expr0}})

parse_factor(ts, pos) == FactorLoop(ts, parse_primary(ts, pos))

TermOps == {<<"+">>, <<"-">>}

\* The while loop of parse_term.
RECURSIVE TermLoop(_, _)
TermLoop(ts, expr0) ==
    Once({IF expr.ok /\ MatchValue(ts, expr.pos, TermOps)
          THEN TermLoop(ts, Fold(expr, previous(ts, expr.pos + 1).value,
                             parse_factor(ts, expr.pos + 1)))
          ELSE expr : expr \in {expr0}})

parse_term(ts, pos) == TermLoop(ts, parse_factor(ts, pos))

ComparisonOps == {<<"<">>, <<">">>, <<"<", "=">>, <<">", "=">>, <<"=", "=">>, <<"!", "=">>}

\* The while loop of parse_comparison.
RECURSIVE ComparisonLoop(_, _)
ComparisonLoop(ts, expr0) ==
    Once({IF expr.ok /\ MatchValue(ts, expr.pos, ComparisonOps)
          THEN ComparisonLoop(ts, Fold(expr, previous(ts, expr.pos + 1).value,
                                   parse_term(ts, expr.pos + 1)))
          ELSE expr : expr \in {expr0}})

parse_comparison(ts, pos) == ComparisonLoop(ts, parse_term(ts, pos))

parse_expression(ts, pos) == parse_comparison(ts, pos)

consume_newline(ts, pos) == IF check(ts, pos, "NEWLINE") THEN pos + 1 ELSE pos

consume_dedent(ts, pos) == IF check(ts, pos, "DEDENT") THEN pos + 1 ELSE pos

\* AssignmentNode(name, value), given the outcome of parsing the value.
AssignmentOf(name, value0) ==
    Once({IF value.ok THEN Ok(AssignmentNode(name, value.node), value.pos) ELSE value :
             value \in {value0}})

\* The name and the `=` are consumed unconditionally.
parse_assignment(ts, pos) ==
    AssignmentOf(current_token(ts, pos).value, parse_expression(ts, pos + 2))

\* The loop that opens parse_statement.
RECURSIVE SkipNewlines(_, _)
SkipNewlines(ts, pos) ==
    IF check(ts, pos, "NEWLINE") THEN SkipNewlines(ts, pos + 1) ELSE pos

\* consume_newline after a statement's node.
ThenNewline(ts, stmt0) ==
    Once({IF stmt.ok THEN Ok(stmt.node, consume_newline(ts, stmt.pos)) ELSE stmt :
             stmt \in {stmt0}})

RECURSIVE parse_statement(_, _)
RECURSIVE BodyLoop(_, _, _)

\* The body loop of parse_if_statement; the node of its outcome is the body.
BodyNext(ts, body, stmt0) ==
    Once({IF stmt.ok THEN BodyLoop(ts, stmt.pos, Append(body, stmt.node)) ELSE stmt :
             stmt \in {stmt0}})

BodyLoop(ts, pos0, body0) ==
    Once({IF ~check(ts, pos, "DEDENT") /\ ~is_at_end(ts, pos)
          THEN BodyNext(ts, body, parse_statement(ts, pos))
          ELSE Ok(body, pos) : pos \in {pos0}, body \in {body0}})

\* parse_if_statement after the body: the closing DEDENT, the node.
IfClose(ts, condition, body0) ==
    Once({IF ~body.ok THEN body
          ELSE Ok(IfNode(condition.node, body.node),
                  IF ~is_at_end(ts, body.pos) THEN consume_dedent(ts, body.pos) ELSE body.pos) :
             body \in {body0}})

\* parse_if_statement after the condition's newline, at position pos.
IfBlock(ts, condition, pos) ==
    IF ~check(ts, pos, "INDENT")
    THEN Raise([kind |-> "Expected indented block after if statement"], pos)
    ELSE IfClose(ts, condition, BodyLoop(ts, pos + 1, <<>>))

\* parse_if_statement after the condition.
IfAfterCondition(ts, condition0) ==
    Once({IF ~condition.ok THEN condition
          ELSE IfBlock(ts, condition, consume_newline(ts, condition.pos)) :
             condition \in {condition0}})

parse_if_statement(ts, pos) == IfAfterCondition(ts, parse_expression(ts, pos + 1))

\* parse_statement after its leading newlines.
StatementAt(ts, pos0) ==
    Once({IF current_token(ts, pos).type = "IDENTIFIER" /\ peek_next(ts, pos).value = <<"=">>
          THEN ThenNewline(ts, parse_assignment(ts, pos))
          ELSE IF current_token(ts, pos).type = "KEYWORD"
                  /\ current_token(ts, pos).value = <<"i", "f">>
          THEN parse_if_statement(ts, pos)
          ELSE ThenNewline(ts, parse_expression(ts, pos)) : pos \in {pos0}})

parse_statement(ts, pos) == StatementAt(ts, SkipNewlines(ts, pos))

\* Parser(tokens).parse() run to completion; the node of its outcome is the list.
RECURSIVE ParseFrom(_, _, _)
ParseNext(ts, list, stmt0) ==
    Once({IF stmt.ok THEN ParseFrom(ts, stmt.pos, Append(list, stmt.node)) ELSE stmt :
             stmt \in {stmt0}})

ParseFrom(ts, pos, list) ==
    IF ~is_at_end(ts, pos) THEN ParseNext(ts, list, parse_statement(ts, pos)) ELSE Ok(list, pos)

parse(ts) == ParseFrom(ts, 0, <<>>)

(***************************************************************************)
(* X86CodeGenerator.  The generator is the record of its four fields; a    *)
(* method's outcome is Done(g) or Thrown(error, g).                        *)
(***************************************************************************)
FirstVarOffset == 4

SlotSize == 4

NewGenerator ==
    [variables |-> <<>>, next_var_offset |-> FirstVarOffset, label_counter |-> 0,
     output |-> <<>>]

Done(g) == [ok |-> TRUE, g |-> g]

Thrown(error, g) == [ok |-> FALSE, error |-> error, g |-> g]

emit(g, instruction) == [g EXCEPT !.output = Append(@, instruction)]

RECURSIVE EmitAll(_, _)
EmitAll(g, instructions) ==
    IF instructions = <<>> THEN g
    ELSE EmitAll(emit(g, Head(instructions)), Tail(instructions))

\* The texts the f-strings render.
MovImmediate(value) == "mov eax, " \o ToString(value)

LoadVariable(offset) == "mov eax, [ebp-" \o ToString(offset) \o "]"

StoreVariable(offset) == "mov [ebp-" \o ToString(offset) \o "], eax"

JumpIfZero(label) == "jz " \o label

LabelDefinition(label) == label \o ":"

LabelName(counter) == "L" \o ToString(counter)

\* A label without the counter's increment.
LabelReused(g) == [label |-> LabelName(g.label_counter), g |-> g]

get_new_label(g) ==
    [label |-> LabelName(g.label_counter),
     g |-> [g EXCEPT !.label_counter = @ + 1]]

SetInstruction(operator) ==
    IF operator = <<"<">> THEN <<"setl al">>
    ELSE IF operator = <<">">> THEN <<"setg al">>
    ELSE IF operator = <<"<", "=">> THEN <<"setle al">>
    ELSE IF operator = <<">", "=">> THEN <<"setge al">>
    ELSE IF operator = <<"=", "=">> THEN <<"sete al">>
    ELSE IF operator = <<"!", "=">> THEN <<"setne al">>
    ELSE <<>>

\* The instructions generate_binary_op emits after `pop ebx`.
OperatorInstructions(operator) ==
    IF operator = <<"+">> THEN <<"add eax, ebx">>
    ELSE IF operator = <<"-">> THEN <<"sub eax, ebx">>
    ELSE IF operator = <<"*">> THEN <<"imul eax, ebx">>
    ELSE IF operator = <<"/">> THEN <<"cdq", "idiv ebx">>
    ELSE IF operator \in ComparisonOps
    THEN <<"cmp eax, ebx">> \o SetInstruction(operator) \o <<"movzx eax, al">>
    ELSE <<>>

RECURSIVE generate_node(_, _)

\* generate_binary_op after the left operand: pop, then the operator.
BinaryOpClose(left0, operator) ==
    Once({IF ~left.ok THEN left
          ELSE Done(EmitAll(emit(left.g, "pop ebx"), OperatorInstructions(operator))) :
             left \in {left0}})

\* generate_binary_op after the right operand: push, then the left operand.
BinaryOpLeft(right0, node) ==
    Once({IF ~right.ok THEN right
          ELSE BinaryOpClose(generate_node(emit(right.g, "push eax"), node.left),
                             node.operator) : right \in {right0}})

\* The left operand's code first, the right operand's after the push.
BinaryOpLeftFirst(g, node) ==
    BinaryOpLeft(generate_node(g, node.left), [node EXCEPT !.left = node.right])

generate_binary_op(g, node) == BinaryOpLeft(generate_node(g, node.right), node)

\* The offset of `name`, allocated if the table lacks it.
Allocate(g, name) ==
    IF name \notin DOMAIN g.variables
    THEN [g EXCEPT !.variables = (name :> g.next_var_offset) @@ @,
                   !.next_var_offset = @ + SlotSize]
    ELSE g

StoreTo(g0, name) == Once({emit(g, StoreVariable(g.variables[name])) : g \in {g0}})

\* generate_assignment after the value's code.
AssignmentStore(value0, name) ==
    Once({IF ~value.ok THEN value ELSE Done(StoreTo(Allocate(value.g, name), name)) :
             value \in {value0}})

\* The slot allocated before the value's code is generated.
AssignmentAllocatedFirst(g, node) ==
    AssignmentStore(generate_node(Allocate(g, node.name), node.value), node.name)

generate_assignment(g, node) == AssignmentStore(generate_node(g, node.value), node.name)

\* A for loop over statements: the top level of generate, and an if's body.
RECURSIVE GenerateAll(_, _)
GenerateRest(first0, stmts) ==
    Once({IF first.ok THEN GenerateAll(first.g, stmts) ELSE first : first \in {first0}})

GenerateAll(g0, stmts0) ==
    Once({IF stmts = <<>> THEN Done(g)
          ELSE GenerateRest(generate_node(g, Head(stmts)), Tail(stmts)) :
             g \in {g0}, stmts \in {stmts0}})

\* generate_if_statement after the body: the label's definition.
IfLabel(body0, end_label) ==
    Once({IF ~body.ok THEN body ELSE Done(emit(body.g, LabelDefinition(end_label))) :
             body \in {body0}})

\* generate_if_statement after the condition: test, jz, the body.
IfJump(condition0, end_label, body) ==
    Once({IF ~condition.ok THEN condition
          ELSE IfLabel(GenerateAll(emit(emit(condition.g, "test eax, eax"),
                                        JumpIfZero(end_label)), body),
                       end_label) : condition \in {condition0}})

\* generate_if_statement with the result of get_new_label.
IfWithLabel(new0, node) ==
    Once({IfJump(generate_node(new.g, node.condition), new.label, node.body) :
             new \in {new0}})

generate_if_statement(g, node) == IfWithLabel(get_new_label(g), node)

generate_node(g0, node0) ==
    Once({IF node.node = "NumberNode" THEN Done(emit(g, MovImmediate(node.value)))
          ELSE IF node.node = "BinaryOpNode" THEN generate_binary_op(g, node)
          ELSE IF node.node = "VariableNode"
          THEN IF node.name \in DOMAIN g.variables
               THEN Done(emit(g, LoadVariable(g.variables[node.name])))
               ELSE Thrown([kind |-> "Undefined variable", name |-> node.name], g)
          ELSE IF node.node = "AssignmentNode" THEN generate_assignment(g, node)
          ELSE IF node.node = "IfNode" THEN generate_if_statement(g, node)
          ELSE Done(g) : g \in {g0}, node \in {node0}})

Prologue == <<"global _start", "section .text", "_start:", "push ebp", "mov ebp, esp">>

Epilogue == <<"mov esp, ebp", "pop ebp", "mov eax, 1", "xor ebx, ebx", "int 0x80">>

\* '\n'.join(lines)
RECURSIVE Join(_)
Join(lines) ==
    IF lines = <<>> THEN ""
    ELSE IF Len(lines) = 1 THEN lines[1]
    ELSE lines[1] \o "\n" \o Join(Tail(lines))

(***************************************************************************)
(* The machine the assembly runs on: 32-bit registers, a stack that grows  *)
(* down by 4 bytes a push.  Memory maps the addresses written so far; a    *)
(* read of any other address yields whatever the stack page holds.  The    *)
(* values of the programs below stay far inside 32 bits.                   *)
(***************************************************************************)
\* push and pop move esp by one 32-bit word.
WordSize == 4

StackGarbage == {0, 77}

ImmediateRange == 0 .. 64

NewCpu ==
    [ip |-> 0, eax |-> 0, ebx |-> 0, edx |-> 0, esp |-> 4096, ebp |-> 0,
     zf |-> FALSE, cmp |-> <<0, 0>>, mem |-> <<>>, stored |-> <<>>,
     status |-> "running"]

Write(mem, addr, value) == (addr :> value) @@ mem

Step(c) == [c EXCEPT !.ip = @ + 1]

\* Signed division truncating toward zero, as idiv.
Quotient(a, b) ==
    LET q == (IF a < 0 THEN -a ELSE a) \div (IF b < 0 THEN -b ELSE b)
    IN  IF (a < 0) = (b < 0) THEN q ELSE -q

SetLow(eax, bit) == eax - (eax % 256) + (IF bit THEN 1 ELSE 0)

\* The index of the line that defines the label a jz names.
LabelIndex(lines, label) ==
    CHOOSE i \in 0 .. Len(lines) - 1 : At(lines, i) = LabelDefinition(label)

\* The successors of machine state c on instruction `line` of `lines`.
Execute(c, line, lines) ==
    IF line \in {"global _start", "section .text", "_start:"}
       \/ \E k \in 0 .. Len(lines) : line = LabelDefinition(LabelName(k))
    THEN {Step(c)}
    ELSE IF line = "push ebp"
    THEN {Step([c EXCEPT !.esp = @ - WordSize, !.mem = Write(@, c.esp - WordSize, c.ebp)])}
    ELSE IF line = "mov ebp, esp" THEN {Step([c EXCEPT !.ebp = c.esp])}
    ELSE IF line = "mov esp, ebp" THEN {Step([c EXCEPT !.esp = c.ebp])}
    ELSE IF line = "pop ebp"
    THEN {Step([c EXCEPT !.ebp = v, !.esp = @ + WordSize]) :
             v \in IF c.esp \in DOMAIN c.mem THEN {c.mem[c.esp]} ELSE StackGarbage}
    ELSE IF line = "push eax"
    THEN {Step([c EXCEPT !.esp = @ - WordSize, !.mem = Write(@, c.esp - WordSize, c.eax)])}
    ELSE IF line = "pop ebx"
    THEN {Step([c EXCEPT !.ebx = v, !.esp = @ + WordSize]) :
             v \in IF c.esp \in DOMAIN c.mem THEN {c.mem[c.esp]} ELSE StackGarbage}
    ELSE IF \E v \in ImmediateRange : line = MovImmediate(v)
    THEN {Step([c EXCEPT !.eax = CHOOSE v \in ImmediateRange : line = MovImmediate(v)])}
    ELSE IF \E k \in 1 .. Len(lines) : line = LoadVariable(SlotSize * k)
    THEN LET offset == CHOOSE o \in {SlotSize * k : k \in 1 .. Len(lines)} :
                           line = LoadVariable(o)
             addr == c.ebp - offset
         IN  {Step([c EXCEPT !.eax = v]) :
                 v \in IF addr \in DOMAIN c.mem THEN {c.mem[addr]} ELSE StackGarbage}
    ELSE IF \E k \in 1 .. Len(lines) : line = StoreVariable(SlotSize * k)
    THEN LET offset == CHOOSE o \in {SlotSize * k : k \in 1 .. Len(lines)} :
                           line = StoreVariable(o)
             addr == c.ebp - offset
         IN  {Step([c EXCEPT !.mem = Write(@, addr, c.eax),
                             !.stored = Write(@, addr, c.eax)])}
    ELSE IF line = "add eax, ebx" THEN {Step([c EXCEPT !.eax = c.eax + c.ebx])}
    ELSE IF line = "sub eax, ebx" THEN {Step([c EXCEPT !.eax = c.eax - c.ebx])}
    ELSE IF line = "imul eax, ebx" THEN {Step([c EXCEPT !.eax = c.eax * c.ebx])}
    ELSE IF line = "cdq" THEN {Step([c EXCEPT !.edx = IF c.eax < 0 THEN -1 ELSE 0])}
    ELSE IF line = "idiv ebx"
    THEN IF c.ebx = 0 THEN {[c EXCEPT !.status = "fault"]}
         ELSE {Step([c EXCEPT !.eax = Quotient(c.eax, c.ebx),
                              !.edx = c.eax - c.ebx * Quotient(c.eax, c.ebx)])}
    ELSE IF line = "cmp eax, ebx" THEN {Step([c EXCEPT !.cmp = <<c.eax, c.ebx>>])}
    ELSE IF line = "setl al" THEN {Step([c EXCEPT !.eax = SetLow(@, c.cmp[1] < c.cmp[2])])}
    ELSE IF line = "setg al" THEN {Step([c EXCEPT !.eax = SetLow(@, c.cmp[1] > c.cmp[2])])}
    ELSE IF line = "setle al" THEN {Step([c EXCEPT !.eax = SetLow(@, c.cmp[1] <= c.cmp[2])])}
    ELSE IF line = "setge al" THEN {Step([c EXCEPT !.eax = SetLow(@, c.cmp[1] >= c.cmp[2])])}
    ELSE IF line = "sete al" THEN {Step([c EXCEPT !.eax = SetLow(@, c.cmp[1] = c.cmp[2])])}
    ELSE IF line = "setne al" THEN {Step([c EXCEPT !.eax = SetLow(@, c.cmp[1] # c.cmp[2])])}
    ELSE IF line = "movzx eax, al" THEN {Step([c EXCEPT !.eax = @ % 256])}
    ELSE IF line = "test eax, eax" THEN {Step([c EXCEPT !.zf = (c.eax = 0)])}
    ELSE IF \E k \in 0 .. Len(lines) : line = JumpIfZero(LabelName(k))
    THEN LET label == LabelName(CHOOSE k \in 0 .. Len(lines) : line = JumpIfZero(LabelName(k)))
         IN  {IF c.zf THEN [c EXCEPT !.ip = LabelIndex(lines, label)] ELSE Step(c)}
    ELSE IF line = "xor ebx, ebx" THEN {Step([c EXCEPT !.ebx = 0])}
    ELSE IF line = "int 0x80" THEN {[c EXCEPT !.status = "exited"]}
    ELSE {[c EXCEPT !.status = "fault"]}

(***************************************************************************)
(* compile_python_to_asm as a state machine: the tokenize loop, the parse  *)
(* loop, the generate loop, each one iteration a step.                     *)
(***************************************************************************)
NoError == [kind |-> "none"]

NotReturned == [returned |-> FALSE, text |-> ""]

Returned(text) == [returned |-> TRUE, text |-> text]

\* One iteration of the while loop of tokenize.
LexStep ==
    /\ pc = "tokenize"
    /\ lexer.pos < Len(lexer.source)
    /\ lexer' = LexIter(lexer)
    /\ UNCHANGED <<source_code, parser, nodes, code_generator, gi, assembly, raised, pc, cpu>>

\* The loop's exit: the EOF token, the return, and Parser(tokens).
LexEnd ==
    /\ pc = "tokenize"
    /\ ~(lexer.pos < Len(lexer.source))
    /\ lexer' = LexEof(lexer)
    /\ parser' = NewParser(lexer'.tokens)
    /\ nodes' = <<>>
    /\ pc' = "parse"
    /\ UNCHANGED <<source_code, code_generator, gi, assembly, raised, cpu>>

\* The parse loop's handling of a statement's outcome.
ParseOutcome(stmt) ==
    /\ parser' = [parser EXCEPT !.pos = stmt.pos]
    /\ IF stmt.ok
       THEN /\ nodes' = Append(nodes, stmt.node)
            /\ UNCHANGED <<raised, pc>>
       ELSE /\ raised' = stmt.error
            /\ pc' = "raised"
            /\ UNCHANGED nodes

\* One iteration of the while loop of parse: a statement, or its exception.
ParseStep ==
    /\ pc = "parse"
    /\ ~is_at_end(parser.tokens, parser.pos)
    /\ \E stmt \in {parse_statement(parser.tokens, parser.pos)} : ParseOutcome(stmt)
    /\ UNCHANGED <<source_code, lexer, code_generator, gi, assembly, cpu>>

\* The loop's exit: the return, and X86CodeGenerator().
ParseEnd ==
    /\ pc = "parse"
    /\ is_at_end(parser.tokens, parser.pos)
    /\ code_generator' = NewGenerator
    /\ pc' = "generate"
    /\ UNCHANGED <<source_code, lexer, parser, nodes, gi, assembly, raised, cpu>>

\* generate: the stack frame setup.
GenBegin ==
    /\ pc = "generate"
    /\ code_generator' = EmitAll(code_generator, Prologue)
    /\ gi' = 0
    /\ pc' = "nodes"
    /\ UNCHANGED <<source_code, lexer, parser, nodes, assembly, raised, cpu>>

\* The generate loop's handling of a node's outcome.
GenOutcome(r) ==
    /\ code_generator' = r.g
    /\ IF r.ok
       THEN /\ gi' = gi + 1
            /\ UNCHANGED <<raised, pc>>
       ELSE /\ raised' = r.error
            /\ pc' = "raised"
            /\ UNCHANGED gi

\* generate: one iteration of the for loop over the top-level nodes.
GenStep ==
    /\ pc = "nodes"
    /\ gi < Len(nodes)
    /\ \E r \in {generate_node(code_generator, At(nodes, gi))} : GenOutcome(r)
    /\ UNCHANGED <<source_code, lexer, parser, nodes, assembly, cpu>>

\* generate: the clean-up, the exit call and the joined text.
GenEnd ==
    /\ pc = "nodes"
    /\ gi = Len(nodes)
    /\ code_generator' = EmitAll(code_generator, Epilogue)
    /\ assembly' = Returned(Join(code_generator'.output))
    /\ pc' = "done"
    /\ UNCHANGED <<source_code, lexer, parser, nodes, gi, raised, cpu>>

\* The machine executes the instruction at ip.
ExecStep ==
    /\ pc = "done"
    /\ cpu.status = "running"
    /\ cpu.ip < Len(code_generator.output)
    /\ cpu' \in Execute(cpu, At(code_generator.output, cpu.ip), code_generator.output)
    /\ UNCHANGED <<source_code, lexer, parser, nodes, code_generator, gi, assembly, raised, pc>>

(***************************************************************************)
(* Source texts: programs of up to MaxLines lines drawn from LinePool and  *)
(* joined by newlines (an empty last line is a final newline).             *)
(***************************************************************************)
MaxLines == 3

LinePool ==
    { <<"x", "=", "1">>,
      <<"i", "f", " ", "x", "<", "2", ":">>,
      <<"\t", "y", "=", "x", "*", "2">>,
      <<" ", " ", " ", " ", "y", "=", "x", "-", "1", " ", "#", "c">>,
      <<>>,
      <<"\t", "i", "f", " ", "y", ">", "1", ":">>,
      <<"\t", "\t", "z", "=", "y">>,
      <<" ", " ", "w", "<", "=", "x", "?">> }

RECURSIVE JoinLines(_)
JoinLines(lines) ==
    IF Len(lines) = 1 THEN lines[1]
    ELSE lines[1] \o <<"\n">> \o JoinLines(Tail(lines))

Sources == {JoinLines(ls) : ls \in UNION {[1 .. n -> LinePool] : n \in 1 .. MaxLines}}

InitPipeline(source) ==
    /\ source_code = source
    /\ lexer = NewLexer(source)
    /\ parser = NewParser(<<>>)
    /\ nodes = <<>>
    /\ code_generator = NewGenerator
    /\ gi = 0
    /\ assembly = NotReturned
    /\ raised = NoError
    /\ pc = "tokenize"
    /\ cpu = NewCpu

Init == \E source \in Sources : InitPipeline(source)

Next == LexStep \/ LexEnd \/ ParseStep \/ ParseEnd \/ GenBegin \/ GenStep \/ GenEnd

Spec == Init /\ [][Next]_vars

\* The pipeline is one synchronous thread: a step that can be taken is taken.
FairSpec == Spec /\ WF_vars(Next)

(***************************************************************************)
(* Claims about the text pipeline (Spec, FairSpec)                         *)
(***************************************************************************)
Lexed == pc # "tokenize"

Count(ts, type) == Cardinality({i \in 1 .. Len(ts) : ts[i].type = type})

StatementTokens == {"NUMBER", "IDENTIFIER", "OPERATOR", "KEYWORD"}

HasStatement(ts) == \E i \in 1 .. Len(ts) : ts[i].type \in StatementTokens

\* The index of the last token of the last statement line.
LastStatement(ts) ==
    CHOOSE i \in 1 .. Len(ts) :
        /\ ts[i].type \in StatementTokens
        /\ \A j \in i + 1 .. Len(ts) : ts[j].type \notin StatementTokens

\* The last statement line lies in a block opened by an INDENT and not yet
\* closed by a DEDENT.
LastStatementIndented(ts) ==
    /\ HasStatement(ts)
    /\ Count(SubSeq(ts, 1, LastStatement(ts)), "INDENT")
           > Count(SubSeq(ts, 1, LastStatement(ts)), "DEDENT")

\* The input ends on the last statement line: no newline follows it.
EndsOnLastStatement(ts) ==
    /\ HasStatement(ts)
    /\ ts[LastStatement(ts)].line = ts[Len(ts)].line

NoDedentAtEnd(ts) ==
    /\ Count(ts, "DEDENT") < Count(ts, "INDENT")
    /\ ts[Len(ts) - 1].type # "DEDENT"

\* C7 as stated: for every source whose last statement line is inside an
\* indented block, with or without a final newline, tokenize emits no DEDENT
\* for the open block: fewer DEDENT than INDENT tokens, and EOF is not
\* preceded by a DEDENT.
C7_NoDedentAtEndOfInput ==
    Lexed /\ LastStatementIndented(lexer.tokens) => NoDedentAtEnd(lexer.tokens)

\* C7 amended: for every source whose last statement line is inside an
\* indented block and is not followed by a newline, tokenize emits no DEDENT
\* for the open block: fewer DEDENT than INDENT tokens, and EOF is not
\* preceded by a DEDENT.
C7_NoDedentWithoutFinalNewline ==
    Lexed /\ LastStatementIndented(lexer.tokens) /\ EndsOnLastStatement(lexer.tokens)
        => NoDedentAtEnd(lexer.tokens)

C7_Witness ==
    /\ Lexed
    /\ LastStatementIndented(lexer.tokens)
    /\ EndsOnLastStatement(lexer.tokens)
    /\ Count(lexer.tokens, "INDENT") = 2
    /\ Count(lexer.tokens, "DEDENT") = 0

RECURSIVE OperatorsOf(_)
RECURSIVE OperatorsIn(_)
\* The operators of the BinaryOp nodes of a tree, and of a list of trees.
OperatorsOf(node) ==
    IF node.node = "BinaryOpNode"
    THEN {node.operator} \cup OperatorsOf(node.left) \cup OperatorsOf(node.right)
    ELSE IF node.node = "AssignmentNode" THEN OperatorsOf(node.value)
    ELSE IF node.node = "IfNode" THEN OperatorsOf(node.condition) \cup OperatorsIn(node.body)
    ELSE {}

OperatorsIn(list) == UNION {OperatorsOf(list[i]) : i \in 1 .. Len(list)}

OneCharOperators == {<<"+">>, <<"-">>, <<"*">>, <<"/">>, <<"<">>, <<">">>}

\* C10: every Operator token is one character long, every BinaryOp the parser
\* builds has an operator among + - * / < >, and no emitted line is setle,
\* setge, sete or setne.
C10_OnlyOneCharOperators ==
    /\ \A i \in 1 .. Len(lexer.tokens) :
           lexer.tokens[i].type = "OPERATOR" => Len(lexer.tokens[i].value) = 1
    /\ OperatorsIn(nodes) \subseteq OneCharOperators
    /\ \A i \in 1 .. Len(code_generator.output) :
           code_generator.output[i] \notin {"setle al", "setge al", "sete al", "setne al"}

\* A source that spells <= : two Operator tokens, after a statement with BinaryOps.
C10_Witness ==
    /\ Lexed
    /\ \E i \in 1 .. Len(lexer.tokens) - 1 :
           /\ lexer.tokens[i].value = <<"<">>
           /\ lexer.tokens[i + 1].value = <<"=">>
    /\ OperatorsIn(nodes) # {}

KindsAndTexts(ts) == [i \in 1 .. Len(ts) |-> <<ts[i].type, ts[i].value>>]

\* Position i of s lies in the run of spaces and tabs that opens its line.
InLeadingRun(s, i) ==
    \E start \in 1 .. i :
        /\ start = 1 \/ s[start - 1] = "\n"
        /\ \A j \in start .. i : s[j] \in {" ", "\t"}

TabToSpaces(s, i) == SubSeq(s, 1, i - 1) \o <<" ", " ", " ", " ">> \o SubSeq(s, i + 1, Len(s))

SpacesToTab(s, i) == SubSeq(s, 1, i - 1) \o <<"\t">> \o SubSeq(s, i + 4, Len(s))

RECURSIVE ExpandLeadingTabs(_, _)
\* Every leading tab from position i on replaced by four spaces.
ExpandLeadingTabs(s, i) ==
    IF i > Len(s) THEN s
    ELSE IF s[i] = "\t" /\ InLeadingRun(s, i) THEN ExpandLeadingTabs(TabToSpaces(s, i), i + 4)
    ELSE ExpandLeadingTabs(s, i + 1)

\* The sources that differ from s by a leading tab for four spaces: on one
\* line either way, or on every line.
TabVariants(s) ==
    {TabToSpaces(s, i) : i \in {j \in 1 .. Len(s) : s[j] = "\t" /\ InLeadingRun(s, j)}}
    \cup {SpacesToTab(s, i) :
             i \in {j \in 1 .. Len(s) - 3 :
                       InLeadingRun(s, j + 3) /\ \A k \in j .. j + 3 : s[k] = " "}}
    \cup {ExpandLeadingTabs(s, 1)}

\* C6: sources that differ only by a leading tab for four spaces tokenize to
\* the same sequence of token kinds and texts, INDENT and DEDENT included.
C6_TabEqualsFourSpaces ==
    Lexed => \A v \in TabVariants(source_code) :
                 KindsAndTexts(tokenize(v)) = KindsAndTexts(lexer.tokens)

C6_Witness ==
    /\ Lexed
    /\ \E v \in TabVariants(source_code) : v # source_code
    /\ Count(lexer.tokens, "INDENT") = 2

\* s with an empty line before the line that starts at position i (1-based).
InsertBlankLine(s, i) == SubSeq(s, 1, i - 1) \o <<"\n">> \o SubSeq(s, i, Len(s))

LineStarts(s) == {1} \cup {i + 1 : i \in {j \in 1 .. Len(s) : s[j] = "\n"}}

SameStatements(outcome, list) == outcome.ok /\ outcome.node = list

\* C9: when a source of at least one statement parses, the source with one more
\* empty line at any line boundary parses too, to the same statements.
C9_BlankLinesIgnored ==
    pc = "generate" /\ nodes # <<>> =>
        \A i \in LineStarts(source_code) :
            SameStatements(parse(tokenize(InsertBlankLine(source_code, i))), nodes)

Terminated == pc \in {"done", "raised"}

\* Each iteration of the tokenize loop advances by at least one character and
\* stays inside the source.
LexAdvances ==
    pc = "tokenize" /\ pc' = "tokenize" =>
        lexer'.pos > lexer.pos /\ lexer'.pos <= Len(source_code)

\* The token list ends with the only EOF token.
EofLastOnly ==
    Lexed => /\ lexer.tokens # <<>>
             /\ \A i \in 1 .. Len(lexer.tokens) :
                    (lexer.tokens[i].type = "EOF") <=> (i = Len(lexer.tokens))

\* An iteration of the parse loop consumes a token or raises.
ParseAdvances ==
    pc = "parse" /\ parser'.pos = parser.pos => pc' # "parse"

\* Every parse_statement call, the nested ones of if bodies included, consumes
\* a token or raises, and leaves the position on or before the EOF token.
StatementsAdvance ==
    pc = "parse" =>
        /\ parser.pos < Len(parser.tokens)
        /\ \A p \in 0 .. Len(parser.tokens) - 2 :
               /\ parse_statement(parser.tokens, p).ok =>
                      parse_statement(parser.tokens, p).pos > p
               /\ parse_statement(parser.tokens, p).pos < Len(parser.tokens)

\* C5: the pipeline terminates for every source: tokenize returns, each of
\* its iterations advancing, with EOF last and only there; parse returns or
\* raises, each parse_statement consuming a token or raising, the position
\* never past EOF.
C5_PipelineTerminates ==
    /\ <>Terminated
    /\ [][LexAdvances]_vars
    /\ []EofLastOnly
    /\ [][ParseAdvances]_vars
    /\ []StatementsAdvance

\* A source with a comment, an unrecognized character and an if body, parsed.
C5_Witness ==
    /\ pc = "generate"
    /\ \E i \in 1 .. Len(source_code) : source_code[i] = "#"
    /\ \E i \in 1 .. Len(source_code) : source_code[i] = ":"
    /\ \E i \in 1 .. Len(nodes) : nodes[i].node = "IfNode" /\ nodes[i].body # <<>>

(***************************************************************************)
(* Single-line assignments (SpecAssign): `z = operand op operand ...` of   *)
(* up to MaxOperands operands, written compactly or with spaces and a      *)
(* final newline.                                                          *)
(***************************************************************************)
MaxOperands == 3

AssignOperands == {<<"a">>, <<"1", "2">>}

OneCharOps == {<<"+">>, <<"-">>, <<"*">>, <<"/">>, <<"<">>, <<">">>}

\* The operand/operator chains of exactly n operands.
RECURSIVE Chains(_)
Chains(n) ==
    IF n = 1 THEN {<<o>> : o \in AssignOperands}
    ELSE {c \o <<op, o>> : c \in Chains(n - 1), op \in OneCharOps, o \in AssignOperands}

RECURSIVE Concat(_, _)
Concat(words, gap) ==
    IF words = <<>> THEN <<>>
    ELSE IF Len(words) = 1 THEN words[1]
    ELSE words[1] \o gap \o Concat(Tail(words), gap)

RenderAssignment(name, chain, spaced) ==
    IF spaced THEN Concat(<<name, <<"=">>>> \o chain, <<" ">>) \o <<"\n">>
    ELSE Concat(<<name, <<"=">>>> \o chain, <<>>)

AssignSources ==
    {RenderAssignment(<<"z">>, chain, spaced) :
        chain \in UNION {Chains(n) : n \in 1 .. MaxOperands}, spaced \in BOOLEAN}

InitAssign == \E source \in AssignSources : InitPipeline(source)

SpecAssign == InitAssign /\ [][Next]_vars

\* The words of an assignment's text: maximal runs of letters and digits, and
\* every other character that is not a blank on its own.
RECURSIVE RunLength(_)
RunLength(s) == IF s # <<>> /\ IsAlnum(Head(s)) THEN 1 + RunLength(Tail(s)) ELSE 0

RECURSIVE RefWords(_)
RefWords(s) ==
    IF s = <<>> THEN <<>>
    ELSE IF Head(s) \in {" ", "\n"} THEN RefWords(Tail(s))
    ELSE IF IsAlnum(Head(s))
    THEN <<SubSeq(s, 1, RunLength(s))>> \o RefWords(SubSeq(s, RunLength(s) + 1, Len(s)))
    ELSE <<<<Head(s)>>>> \o RefWords(Tail(s))

Precedence(op) ==
    CASE op \in {<<"<">>, <<">">>} -> 1
      [] op \in {<<"+">>, <<"-">>} -> 2
      [] op \in {<<"*">>, <<"/">>} -> 3

RECURSIVE RefDecimal(_)
RefDecimal(w) ==
    IF w = <<>> THEN 0
    ELSE DigitValue(Head(w)) * 10 ^ (Len(w) - 1) + RefDecimal(Tail(w))

RefLeaf(w) == IF IsDigit(w[1]) THEN NumberNode(RefDecimal(w)) ELSE VariableNode(w)

\* The operator a reference precedence parser applies last: the rightmost one
\* of the loosest binding.
RootOperator(items) ==
    CHOOSE k \in {i \in 1 .. Len(items) : i % 2 = 0} :
        \A j \in {i \in 1 .. Len(items) : i % 2 = 0} :
            \/ Precedence(items[k]) < Precedence(items[j])
            \/ Precedence(items[k]) = Precedence(items[j]) /\ j <= k

RECURSIVE RefTree(_)
RefTree(items) ==
    IF Len(items) = 1 THEN RefLeaf(items[1])
    ELSE BinaryOpNode(RefTree(SubSeq(items, 1, RootOperator(items) - 1)),
                      items[RootOperator(items)],
                      RefTree(SubSeq(items, RootOperator(items) + 1, Len(items))))

RefAssignment(source) ==
    AssignmentNode(RefWords(source)[1],
                   RefTree(SubSeq(RefWords(source), 3, Len(RefWords(source)))))

Parsed == pc \in {"generate", "nodes", "done", "raised"}

\* C1: a well-formed single-line assignment `name = expr` over numbers,
\* identifiers and + - * / < > is parsed without an exception into exactly one
\* AssignmentNode for `name`, whose value is the tree of a reference precedence
\* parser: * / bind tighter than + -, these tighter than < >, and each level
\* folds to the left.
C1_AssignmentParsesToPrecedenceTree ==
    /\ pc = "raised" => raised.kind = "Undefined variable"
    /\ pc = "parse" => nodes = <<>> \/ is_at_end(parser.tokens, parser.pos)
    /\ (pc = "parse" /\ is_at_end(parser.tokens, parser.pos)) \/ Parsed
          => nodes = <<RefAssignment(source_code)>>

\* z = a + 12 * a was parsed to (a + (12 * a)).
C1_Witness ==
    /\ pc = "generate"
    /\ nodes = <<AssignmentNode(<<"z">>,
                   BinaryOpNode(VariableNode(<<"a">>), <<"+">>,
                                BinaryOpNode(NumberNode(12), <<"*">>, VariableNode(<<"a">>))))>>

(***************************************************************************)
(* X86CodeGenerator().generate(nodes) on syntax trees (SpecGen): a prefix  *)
(* of known statements, one statement drawn from GenStatements, a suffix.  *)
(***************************************************************************)
MaxOps == 2

MaxBody == 2

GenLeaves == {NumberNode(7), VariableNode(<<"x">>)}

DeepOps == {<<"-">>, <<"/">>, <<"<">>}

AllOps == TermOps \cup FactorOps \cup ComparisonOps

\* The expressions of exactly n binary operations.
RECURSIVE Trees(_)
Trees(n) ==
    IF n = 0 THEN GenLeaves
    ELSE UNION {{BinaryOpNode(left, op, right) :
                    left \in Trees(i), op \in DeepOps, right \in Trees(n - 1 - i)} :
                i \in 0 .. n - 1}

GenExpressions ==
    UNION {Trees(n) : n \in 0 .. MaxOps}
        \cup {BinaryOpNode(left, op, right) : left \in GenLeaves, op \in AllOps,
                                             right \in GenLeaves}

BodyStatements ==
    { AssignmentNode(<<"y">>, VariableNode(<<"x">>)),
      AssignmentNode(<<"x">>, NumberNode(7)),
      IfNode(VariableNode(<<"x">>), <<AssignmentNode(<<"y">>, VariableNode(<<"x">>))>>),
      IfNode(VariableNode(<<"y">>),
             <<IfNode(VariableNode(<<"x">>),
                      <<AssignmentNode(<<"x">>, VariableNode(<<"y">>))>>)>>) }

Bodies == UNION {[1 .. n -> BodyStatements] : n \in 1 .. MaxBody}

Conditions ==
    { NumberNode(7), VariableNode(<<"x">>),
      BinaryOpNode(VariableNode(<<"x">>), <<"<">>, NumberNode(7)) }

GenStatements ==
    GenExpressions
        \cup {AssignmentNode(name, value) : name \in {<<"x">>, <<"y">>},
                                            value \in GenExpressions}
        \cup {IfNode(condition, body) : condition \in Conditions, body \in Bodies}

Prefixes ==
    { <<>>,
      <<AssignmentNode(<<"x">>, NumberNode(7))>>,
      <<AssignmentNode(<<"x">>, NumberNode(7)),
        AssignmentNode(<<"y">>, VariableNode(<<"x">>))>>,
      <<IfNode(NumberNode(7), <<AssignmentNode(<<"x">>, NumberNode(7))>>)>> }

Suffixes ==
    { <<>>,
      <<IfNode(VariableNode(<<"x">>), <<AssignmentNode(<<"y">>, NumberNode(7))>>)>> }

Programs ==
    {before \o <<stmt>> \o after :
        before \in Prefixes, stmt \in GenStatements, after \in Suffixes}

InitGen ==
    /\ source_code = <<>>
    /\ lexer = NewLexer(<<>>)
    /\ parser = NewParser(<<>>)
    /\ nodes \in Programs
    /\ code_generator = NewGenerator
    /\ gi = 0
    /\ assembly = NotReturned
    /\ raised = NoError
    /\ pc = "generate"
    /\ cpu = NewCpu

NextGen == GenBegin \/ GenStep \/ GenEnd

SpecGen == InitGen /\ [][NextGen]_vars

(***************************************************************************)
(* Claims about the generator (SpecGen)                                    *)
(***************************************************************************)
\* The reads and assignments of names in the order the walk reaches them.
RECURSIVE Events(_)
RECURSIVE EventsAll(_)
Events(node) ==
    IF node.node = "VariableNode" THEN <<[use |-> TRUE, name |-> node.name]>>
    ELSE IF node.node = "BinaryOpNode" THEN Events(node.right) \o Events(node.left)
    ELSE IF node.node = "AssignmentNode"
    THEN Events(node.value) \o <<[use |-> FALSE, name |-> node.name]>>
    ELSE IF node.node = "IfNode" THEN Events(node.condition) \o EventsAll(node.body)
    ELSE <<>>

EventsAll(stmts) ==
    IF stmts = <<>> THEN <<>> ELSE Events(Head(stmts)) \o EventsAll(Tail(stmts))

\* The reads of a name no earlier event has assigned.
Unassigned(events) ==
    {i \in 1 .. Len(events) :
        /\ events[i].use
        /\ \A j \in 1 .. i - 1 : events[j].use \/ events[j].name # events[i].name}

Minimum(S) == CHOOSE i \in S : \A j \in S : i <= j

\* The name the walk reaches first without an assignment.
FirstUnassigned(stmts) == EventsAll(stmts)[Minimum(Unassigned(EventsAll(stmts)))].name

\* The number of the first statement in which such a read lies.
FirstBadStatement(stmts) ==
    Minimum({n \in 1 .. Len(stmts) : Unassigned(EventsAll(SubSeq(stmts, 1, n))) # {}})

\* C2: when the depth-first walk reaches a VariableNode whose name no
\* AssignmentNode generated earlier in the walk has as its target (in an
\* operand at any depth, an if condition, an if body, an expression statement,
\* or the value of the name's own first assignment), generate raises
\* "Undefined variable" naming it, and returns no assembly string.
C2_UndefinedVariableRaises ==
    Unassigned(EventsAll(nodes)) # {} =>
        /\ ~assembly.returned
        /\ pc # "done"
        /\ gi < FirstBadStatement(nodes)
        /\ pc = "raised" =>
              /\ gi = FirstBadStatement(nodes) - 1
              /\ raised = [kind |-> "Undefined variable", name |-> FirstUnassigned(nodes)]

\* x = x - 7 as the first assignment of x has raised.
C2_Witness ==
    /\ pc = "raised"
    /\ raised = [kind |-> "Undefined variable", name |-> <<"x">>]
    /\ nodes[gi + 1] = AssignmentNode(<<"x">>,
                           BinaryOpNode(VariableNode(<<"x">>), <<"-">>, NumberNode(7)))

\* The instructions that follow `pop ebx`, per operator.
OperatorCode(operator) ==
    CASE operator = <<"+">> -> <<"add eax, ebx">>
      [] operator = <<"-">> -> <<"sub eax, ebx">>
      [] operator = <<"*">> -> <<"imul eax, ebx">>
      [] operator = <<"/">> -> <<"cdq", "idiv ebx">>
      [] operator = <<"<">> -> <<"cmp eax, ebx", "setl al", "movzx eax, al">>
      [] operator = <<">">> -> <<"cmp eax, ebx", "setg al", "movzx eax, al">>
      [] operator = <<"<", "=">> -> <<"cmp eax, ebx", "setle al", "movzx eax, al">>
      [] operator = <<">", "=">> -> <<"cmp eax, ebx", "setge al", "movzx eax, al">>
      [] operator = <<"=", "=">> -> <<"cmp eax, ebx", "sete al", "movzx eax, al">>
      [] operator = <<"!", "=">> -> <<"cmp eax, ebx", "setne al", "movzx eax, al">>

\* The code of an expression whose names all have slots in `variables`.
RECURSIVE ExprCode(_, _)
ExprCode(node, variables) ==
    IF node.node = "NumberNode" THEN <<MovImmediate(node.value)>>
    ELSE IF node.node = "VariableNode" THEN <<LoadVariable(variables[node.name])>>
    ELSE ExprCode(node.right, variables) \o <<"push eax">>
             \o ExprCode(node.left, variables) \o <<"pop ebx">>
             \o OperatorCode(node.operator)

\* The expression a statement's code starts with.
LeadingExpression(node) ==
    IF node.node = "AssignmentNode" THEN node.value
    ELSE IF node.node = "IfNode" THEN node.condition
    ELSE node

\* The lines a step appends to the output.
Appended == SubSeq(code_generator'.output, Len(code_generator.output) + 1,
                   Len(code_generator'.output))

StatementGenerated == pc = "nodes" /\ pc' = "nodes" /\ gi' = gi + 1

BinaryOpEmitted ==
    StatementGenerated /\ LeadingExpression(At(nodes, gi)).node = "BinaryOpNode" =>
        SubSeq(Appended, 1,
               Len(ExprCode(LeadingExpression(At(nodes, gi)), code_generator.variables)))
            = ExprCode(LeadingExpression(At(nodes, gi)), code_generator.variables)

\* C4: the code of BinaryOpNode(left, op, right) is the code of right,
\* `push eax`, the code of left, `pop ebx`, then the operator's instructions,
\* for every operator and recursively in nested operands.
C4_BinaryOpRightPushLeftPop == [][BinaryOpEmitted]_vars

\* (x - 7) / x was generated as a statement after x = 7.
C4_Witness ==
    /\ pc = "nodes"
    /\ gi = 2
    /\ nodes[2] = BinaryOpNode(BinaryOpNode(VariableNode(<<"x">>), <<"-">>, NumberNode(7)),
                               <<"/">>, VariableNode(<<"x">>))
    /\ SubSeq(code_generator.output, Len(code_generator.output) - 9,
              Len(code_generator.output))
          = <<"mov eax, [ebp-4]", "push eax", "mov eax, 7", "push eax",
              "mov eax, [ebp-4]", "pop ebx", "sub eax, ebx", "pop ebx", "cdq", "idiv ebx">>

\* The number of IfNodes in a statement, nested ones included.
RECURSIVE IfCount(_)
RECURSIVE IfCountAll(_)
IfCount(node) == IF node.node = "IfNode" THEN 1 + IfCountAll(node.body) ELSE 0

IfCountAll(stmts) ==
    IF stmts = <<>> THEN 0 ELSE IfCount(Head(stmts)) + IfCountAll(Tail(stmts))

\* The code of a statement when `counter` labels are in use already.
RECURSIVE StmtCode(_, _, _)
RECURSIVE BodyCode(_, _, _)
StmtCode(node, variables, counter) ==
    IF node.node = "AssignmentNode"
    THEN ExprCode(node.value, variables) \o <<StoreVariable(variables[node.name])>>
    ELSE IF node.node = "IfNode"
    THEN ExprCode(node.condition, variables)
             \o <<"test eax, eax", "jz L" \o ToString(counter)>>
             \o BodyCode(node.body, variables, counter + 1)
             \o <<"L" \o ToString(counter) \o ":">>
    ELSE ExprCode(node, variables)

BodyCode(stmts, variables, counter) ==
    IF stmts = <<>> THEN <<>>
    ELSE StmtCode(Head(stmts), variables, counter)
             \o BodyCode(Tail(stmts), variables, counter + IfCount(Head(stmts)))

Occurrences(lines, line) == {i \in 1 .. Len(lines) : lines[i] = line}

\* Every label in use is defined once and jumped to once, from before.
LabelsPaired ==
    pc \in {"nodes", "done"} =>
        \A k \in 0 .. code_generator.label_counter - 1 :
            /\ Cardinality(Occurrences(code_generator.output, "L" \o ToString(k) \o ":")) = 1
            /\ Cardinality(Occurrences(code_generator.output, "jz L" \o ToString(k))) = 1
            /\ \A j \in Occurrences(code_generator.output, "jz L" \o ToString(k)) :
                   \A d \in Occurrences(code_generator.output, "L" \o ToString(k) \o ":") :
                       j < d /\ code_generator.output[j - 1] = "test eax, eax"

ConditionalEmitted ==
    StatementGenerated /\ At(nodes, gi).node = "IfNode" =>
        /\ Appended = StmtCode(At(nodes, gi), code_generator'.variables,
                               code_generator.label_counter)
        /\ code_generator'.label_counter
              = code_generator.label_counter + IfCount(At(nodes, gi))

\* C3: an IfNode with a non-empty body emits the condition's code,
\* `test eax, eax`, `jz Lk`, the body's code, then `Lk:`, also for conditionals
\* in sequence and nested in bodies; every label of a generate call is defined
\* exactly once and is the target of exactly one jz, which precedes it.
C3_ConditionalLayoutAndLabels == []LabelsPaired /\ [][ConditionalEmitted]_vars

\* A conditional nested in a conditional, and a third one after them.
C3_Witness ==
    /\ pc = "done"
    /\ code_generator.label_counter >= 3
    /\ \E a, b, c, d \in 1 .. Len(code_generator.output) :
           /\ a < b /\ b < c /\ c < d
           /\ code_generator.output[a] = "jz L0"
           /\ code_generator.output[b] = "jz L1"
           /\ code_generator.output[c] = "L1:"
           /\ code_generator.output[d] = "L0:"
           /\ \E e \in d + 1 .. Len(code_generator.output) :
                  code_generator.output[e] = "jz L2"

(***************************************************************************)
(* The pipeline followed by the execution of its assembly (SpecRun)        *)
(***************************************************************************)
\* x = 42, y = 10, z = x + y * 2; a conditional with a division; a copy.
RunSources ==
    { <<"x", " ", "=", " ", "4", "2", "\n", "y", " ", "=", " ", "1", "0", "\n", "z",
        " ", "=", " ", "x", " ", "+", " ", "y", " ", "*", " ", "2">>,
      <<"x", "=", "5", "\n", "i", "f", " ", "x", ">", "2", ":", "\n", "\t", "y", "=",
        "x", "/", "2", "\n">>,
      <<"x", "=", "3", "\n", "y", "=", "x">> }

InitRun == \E source \in RunSources : InitPipeline(source)

NextRun ==
    LexStep \/ LexEnd \/ ParseStep \/ ParseEnd \/ GenBegin \/ GenStep \/ GenEnd \/ ExecStep

SpecRun == InitRun /\ [][NextRun]_vars

\* The machine is between the prologue and `pop ebp`: ebp is the frame's base.
InFrame == pc = "done" /\ cpu.ip \in Len(Prologue) .. Len(code_generator.output) - 4

\* The addresses [ebp-offset] of the variable table's offsets.
VariableSlots ==
    {cpu.ebp - code_generator.variables[name] : name \in DOMAIN code_generator.variables}

\* C8: the temporary written by `push eax` never lands on an address
\* [ebp-offset] the variable table has assigned, so a variable's slot holds the
\* value last stored to it by `mov [ebp-offset], eax` and every load reads it.
C8_PushNeverOverwritesVariable ==
    InFrame =>
        \A addr \in VariableSlots \cap DOMAIN cpu.mem :
            addr \in DOMAIN cpu.stored /\ cpu.mem[addr] = cpu.stored[addr]

====
